---- MODULE Spec2Model ----
(***************************************************************************)
(* Model of the Tempo tracing integration (TechWithTy/tempo).              *)
(*                                                                         *)
(*   core.py         TempoClient, the circuit guarding                     *)
(*                   _setup_trace_provider, and the process-wide registry  *)
(*                   (init_tempo / get_tempo / shutdown_tempo)             *)
(*   api_tracing.py  the decorators trace_api_route / trace_db_operation   *)
(*                                                                         *)
(* Spec      the circuit and the registry, driven by concurrent callers.   *)
(* FairSpec  Spec with the fairness of an application that keeps calling.  *)
(* WrapSpec  one call of a decorated function, step by step.               *)
(***************************************************************************)
EXTENDS Integers, Sequences, FiniteSets, TLC

\* ------------------------------------------------------------------ bounds
\* seconds that pass in one Tick
TickStep == 15
\* the failure counter and the trailing-failure count saturate here (only
\* "count >= failure_threshold" is ever read, so saturation loses nothing)
MaxCount == 4
\* object identities for TempoClient instances (reused once unreferenced)
MaxClients == 3
\* how many calls of the provider's shutdown are counted for one instance
MaxShutdowns == 2

\* -------------------------------------------------------- program constants
\* @circuit(failure_threshold=3, ...)
failure_threshold == 3
\* @circuit(recovery_timeout=30, ...)
recovery_timeout == 30

Threads == {"t1", "t2"}
ClientIds == 1..MaxClients
\* Python's None for the registry and for "no object"
None == 0

\* expected_exception=(grpc.RpcError, ConnectionError, RuntimeError): the
\* fault kinds the circuit counts. "transport" stands for those three
\* classes; "config" is the OSError of open() on a credential file, which is
\* none of them.
expected_exception == {"transport"}

VARIABLES
    cb,            \* the CircuitBreaker object behind @circuit: _state, _failure_count, _opened
    collectorUp,   \* environment: the collector endpoint accepts connections
    tlsFiles,      \* TEMPO_CA_FILE/CERT_FILE/KEY_FILE: "unset", or set and "readable" / "unreadable"
    provider,      \* the global tracer provider: "unset", "bare" (no exporter), "exporting", "shutdown"
    tempo_client,  \* core.py module global: the registry (None or an instance)
    registry_via,  \* history: how the registered instance's constructor ended
    th,            \* each caller thread: where it is inside the call it makes
    last,          \* history: the call that finished last, and how
    given,         \* history: the instances init_tempo returned since the last shutdown_tempo
    shutdown_calls,\* history: calls of the provider's shutdown made for the instance registered last
    consec,        \* history: how many setup attempts in a row ended in a transport fault
    wpc,           \* decorated call: position inside the wrapper
    win,           \* decorated call: the inputs of this call
    calls,         \* decorated call: outcomes of the invocations of the wrapped function
    observed,      \* decorated call: what the caller of the wrapper observed
    span,          \* decorated call: the span the wrapper created
    wfaults,       \* history: the tracing steps of this call that faulted
    apc,           \* attribute code: position (idle, returned, done)
    ain,           \* attribute code: the decorator's toggles and the call's arguments
    attributes,    \* attribute code: the attributes the span has
    cfg,           \* config.py: the TEMPO_* settings _get_tempo_credentials reads
    credentials,   \* what _get_tempo_credentials returned for cfg
    hook_log       \* history: the shutdowns the shutdown hook called, in order, and how each ended

wvars == <<wpc, win, calls, observed, span, wfaults>>
kvars == <<cfg, credentials, hook_log>>
avars == <<apc, ain, attributes, cfg, credentials, hook_log>>
vars == <<cb, collectorUp, tlsFiles, provider, tempo_client, registry_via, th, last,
          given, shutdown_calls,
          apc, ain, attributes, cfg, credentials, hook_log,
          consec, wpc, win, calls, observed, span, wfaults>>

Min(a, b) == IF a <= b THEN a ELSE b

\* ------------------------------------------------- circuitbreaker.circuit
\* mutant of open_remaining: the subtraction the wrong way round
open_remaining_reversed(c) == c.since_opened - recovery_timeout

\* CircuitBreaker.open_remaining: seconds until the recovery timeout is over
open_remaining(c) == recovery_timeout - c.since_opened

\* CircuitBreaker.state: HALF_OPEN is not stored, it is OPEN whose timeout passed
state(c) ==
    IF c.state = "open" /\ open_remaining(c) <= 0 THEN "half_open" ELSE c.state

\* CircuitBreaker.opened
opened(c) == state(c) = "open"

\* CircuitBreaker.__call_succeeded
call_succeeded(c) == [c EXCEPT !.state = "closed", !.failure_count = 0]

\* mutant of call_failed: the timer is not restarted when the circuit opens
call_failed_no_restart(c) ==
    LET n == Min(c.failure_count + 1, MaxCount)
    IN  IF n >= failure_threshold
        THEN [c EXCEPT !.failure_count = n, !.state = "open"]
        ELSE [c EXCEPT !.failure_count = n]

\* mutant of call_failed: opens one failure late (> for >=)
call_failed_late(c) ==
    LET n == Min(c.failure_count + 1, MaxCount)
    IN  IF n > failure_threshold
        THEN [c EXCEPT !.failure_count = n, !.state = "open", !.since_opened = 0]
        ELSE [c EXCEPT !.failure_count = n]

\* CircuitBreaker.__call_failed
call_failed(c) ==
    LET n == Min(c.failure_count + 1, MaxCount)
    IN  IF n >= failure_threshold
        THEN [c EXCEPT !.failure_count = n, !.state = "open", !.since_opened = 0]
        ELSE [c EXCEPT !.failure_count = n]

\* CircuitBreaker.__exit__: a fault of an expected class is a failure, every
\* other exit (a normal return, a fault of another class) is a success
circuit_on_exit(c, fault) ==
    IF fault \in expected_exception THEN call_failed(c) ELSE call_succeeded(c)

\* ------------------------------------------------------------ TempoClient
\* a configured credential file cannot be read
tlsBroken == tlsFiles = "unreadable"

\* the body of _setup_trace_provider: which fault it ends with, if any.
\* _get_tempo_credentials (line 73) runs before the exporter is created
\* (line 75), so an unreadable credential file faults first.
setup_fault ==
    IF tlsBroken THEN "config"
    ELSE IF ~collectorUp THEN "transport"
    ELSE "none"

\* the global provider after the body ran: line 70 installs a new provider
\* before anything can fault, line 83 adds the exporting processor
provider_after(fault) == IF fault = "none" THEN "exporting" ELSE "bare"

\* the smallest identity that neither the registry nor a thread refers to
FreshId ==
    LET used == {tempo_client} \cup {th[u].self : u \in Threads}
    IN  CHOOSE i \in ClientIds : i \notin used /\
            \A j \in ClientIds : j \notin used => i <= j

IdleThread == [pc |-> "idle", op |-> "none", gate |-> "none", self |-> None]

NoCall ==
    [op |-> "none", gate |-> "none", path |-> "none", tlsBroken |-> FALSE,
     res |-> "none", val |-> None, arg |-> ""]

\* the record of a finished call
Finished(op, gate, path, broken, res) ==
    [op |-> op, gate |-> gate, path |-> path, tlsBroken |-> broken, res |-> res,
     val |-> None, arg |-> ""]

\* the record of a registry call that returned instance v; a is the service
\* name the call passed, if it takes one
Returned(op, v, a) ==
    [Finished(op, "none", "none", FALSE, "returned") EXCEPT !.val = v, !.arg = a]

\* service names a caller passes to init_tempo
ServiceNames == {"svcA", "svcB"}

\* ---------------------------------------- api_tracing.py: span attributes
\* Strings whose letters matter (argument names, header names, attribute
\* keys) are sequences of one-character strings, so that lower(), "in" and
\* the f-string prefixes are computed on the characters.

\* len(arg_str) <= 256 (api_tracing.py 252, 260)
arg_limit == 256
\* len(body_str) <= 4096 (api_tracing.py 148)
body_limit == 4096

UpperToLower ==
    "A" :> "a" @@
    "B" :> "b" @@
    "C" :> "c" @@
    "D" :> "d" @@
    "E" :> "e" @@
    "F" :> "f" @@
    "G" :> "g" @@
    "H" :> "h" @@
    "I" :> "i" @@
    "J" :> "j" @@
    "K" :> "k" @@
    "L" :> "l" @@
    "M" :> "m" @@
    "N" :> "n" @@
    "O" :> "o" @@
    "P" :> "p" @@
    "Q" :> "q" @@
    "R" :> "r" @@
    "S" :> "s" @@
    "T" :> "t" @@
    "U" :> "u" @@
    "V" :> "v" @@
    "W" :> "w" @@
    "X" :> "x" @@
    "Y" :> "y" @@
    "Z" :> "z"

\* mutant of lower: the string is left as it is
lower_unchanged(s) == s

\* str.lower()
lower(s) == [i \in 1..Len(s) |-> IF s[i] \in DOMAIN UpperToLower THEN UpperToLower[s[i]] ELSE s[i]]

\* `pat in s` for strings
contains(s, pat) ==
    \E i \in 1..(Len(s) - Len(pat) + 1) : SubSeq(s, i, i + Len(pat) - 1) = pat

\* s.startswith(pfx)
startswith(s, pfx) == Len(s) >= Len(pfx) /\ SubSeq(s, 1, Len(pfx)) = pfx

\* "password"
s_password == <<"p", "a", "s", "s", "w", "o", "r", "d">>
\* "secret"
s_secret == <<"s", "e", "c", "r", "e", "t">>
\* "authorization"
s_authorization == <<"a", "u", "t", "h", "o", "r", "i", "z", "a", "t", "i", "o", "n">>
\* "cookie"
s_cookie == <<"c", "o", "o", "k", "i", "e">>
\* "http.method", "http.url", "http.route"
k_http_method == <<"h", "t", "t", "p", ".", "m", "e", "t", "h", "o", "d">>
k_http_url == <<"h", "t", "t", "p", ".", "u", "r", "l">>
k_http_route == <<"h", "t", "t", "p", ".", "r", "o", "u", "t", "e">>
\* f"http.query.{key}", f"http.path.{key}", f"http.header.{key}"
p_http_query == <<"h", "t", "t", "p", ".", "q", "u", "e", "r", "y", ".">>
p_http_path == <<"h", "t", "t", "p", ".", "p", "a", "t", "h", ".">>
p_http_header == <<"h", "t", "t", "p", ".", "h", "e", "a", "d", "e", "r", ".">>
\* "http.status_code", "http.response.body"
k_http_status_code == <<"h", "t", "t", "p", ".", "s", "t", "a", "t", "u", "s", "_", "c", "o", "d", "e">>
k_http_response_body == <<"h", "t", "t", "p", ".", "r", "e", "s", "p", "o", "n", "s", "e", ".", "b", "o", "d", "y">>
\* "db.operation", "db.table", f"db.arg.{i}", f"db.kwarg.{key}"
k_db_operation == <<"d", "b", ".", "o", "p", "e", "r", "a", "t", "i", "o", "n">>
k_db_table == <<"d", "b", ".", "t", "a", "b", "l", "e">>
p_db_arg == <<"d", "b", ".", "a", "r", "g", ".">>
p_db_kwarg == <<"d", "b", ".", "k", "w", "a", "r", "g", ".">>

\* a Python value: its class, the text str() gives for it and that text's
\* length; an encoded body also has its length in bytes
Val(type, text, n) == [type |-> type, text |-> text, len |-> n]

\* str(value): the text, now of class str
str(v) == Val("str", v.text, v.len)

\* str(i) for an index of enumerate()
Digits == <<"0", "1", "2", "3">>
index_str(i) == <<Digits[i + 1]>>

\* a dict as a function; d[k] = v on a dict
EmptyDict == [k \in {} |-> k]
dict_set(d, k, v) == [x \in DOMAIN d \cup {k} |-> IF x = k THEN v ELSE d[x]]
\* d.update(e): the entries of e win
dict_update(d, e) == e @@ d

\* the entries {f"{pfx}{key}": conv(item[key])} for the keys in keep
Prefixed(pfx, item, keep, conv(_)) ==
    [k \in {pfx \o key : key \in keep} |-> conv(item[SubSeq(k, Len(pfx) + 1, Len(k))])]

keep_value(v) == v

\* "password" in key.lower() or "secret" in key.lower() (api_tracing.py 258)
sensitive_kwarg(key) ==
    contains(lower(key), s_password) \/ contains(lower(key), s_secret)

\* mutant of sensitive_header: the name is compared as it is written
sensitive_header_exact(key) == key \in {s_authorization, s_cookie}

\* key.lower() in ["authorization", "cookie"] (api_tracing.py 95)
sensitive_header(key) == lower(key) \in {s_authorization, s_cookie}

\* the attributes dict trace_api_route builds from the request
\* (api_tracing.py 66-97); q, p, h are include_query_params,
\* include_path_params, include_headers
RequestAttributes(req, q, p, h) ==
    IF ~req.present THEN EmptyDict
    ELSE LET a0 == dict_update(EmptyDict,
                       (k_http_method :> req.method) @@ (k_http_url :> str(req.url))
                           @@ (k_http_route :> req.route))
             a1 == IF q THEN dict_update(a0, Prefixed(p_http_query, req.query_params,
                                             DOMAIN req.query_params, keep_value))
                   ELSE a0
             a2 == IF p THEN dict_update(a1, Prefixed(p_http_path, req.path_params,
                                             DOMAIN req.path_params, str))
                   ELSE a1
         IN  IF h THEN dict_update(a2, Prefixed(p_http_header, req.headers,
                           {key \in DOMAIN req.headers : ~sensitive_header(key)},
                           keep_value))
             ELSE a2

\* TempoClient.create_span (core.py 153-155): every attribute is set on the
\* span as str(value)
SpanAttributes(attrs) == [k \in DOMAIN attrs |-> str(attrs[k])]

\* isinstance(response, Response)
ResponseClasses == {"JSONResponse", "StreamingResponse"}

\* response.body.decode("utf-8"): a str as long as the body has characters
decode(b) == Val("str", b.text, b.chars)

\* mutant of ResponseAttributes: the body is recorded whatever the toggle says
ResponseAttributes_always_body(attrs, resp, include_response_body) ==
    IF resp.class \notin ResponseClasses THEN attrs
    ELSE LET a1 == dict_set(attrs, k_http_status_code, resp.status_code)
         IN  IF resp.has_body /\ decode(resp.body).len <= body_limit
             THEN dict_set(a1, k_http_response_body, decode(resp.body))
             ELSE a1

\* the attributes set on the span once the function returned
\* (api_tracing.py 139-149)
ResponseAttributes(attrs, resp, include_response_body) ==
    IF resp.class \notin ResponseClasses THEN attrs
    ELSE LET a1 == dict_set(attrs, k_http_status_code, resp.status_code)
         IN  IF include_response_body /\ resp.has_body
                 /\ decode(resp.body).len <= body_limit
             THEN dict_set(a1, k_http_response_body, decode(resp.body))
             ELSE a1

\* `if table:` (api_tracing.py 239)
truthy(v) == v.type # "NoneType" /\ v.len > 0

\* the attributes dict trace_db_operation builds (api_tracing.py 235-261);
\* qual_class is func.__qualname__.split('.')[0]
DbAttributes(operation, table, args, kwargs, include_parameters, qual_class) ==
    LET a0 == k_db_operation :> operation
        a1 == IF truthy(table) THEN dict_set(a0, k_db_table, table) ELSE a0
        skip_first == Len(args) > 0 /\ args[1].type = qual_class
        rest == IF skip_first THEN Tail(args) ELSE args
        kept == {i \in 1..Len(rest) :
                    rest[i].type # "Request" /\ str(rest[i]).len <= arg_limit}
        a2 == dict_update(a1, [k \in {p_db_arg \o index_str(i - 1) : i \in kept} |->
                                  str(rest[CHOOSE i \in kept : p_db_arg \o index_str(i - 1) = k])])
        keep == {key \in DOMAIN kwargs :
                    ~sensitive_kwarg(key) /\ str(kwargs[key]).len <= arg_limit}
    IN  IF include_parameters
        THEN dict_update(a2, Prefixed(p_db_kwarg, kwargs, keep, str))
        ELSE a1

\* ---- the inputs the attribute code is run on
\* keyword argument names: with "password" or "secret" in some letter case,
\* and without
SensitiveKwargs ==
    {<<"p", "a", "s", "s", "w", "o", "r", "d">>,
     <<"D", "B", "_", "P", "A", "S", "S", "W", "O", "R", "D">>,
     <<"c", "l", "i", "e", "n", "t", "S", "e", "c", "r", "e", "t">>}
PlainKwargs ==
    {<<"n", "a", "m", "e">>,
     <<"p", "a", "s", "s", "_", "w", "o", "r", "d">>,
     <<"p", "a", "s", "s", "w", "d">>}
\* header names: authorization or cookie in some letter case, and others
SensitiveHeaders ==
    {<<"A", "u", "t", "h", "o", "r", "i", "z", "a", "t", "i", "o", "n">>,
     <<"C", "O", "O", "K", "I", "E">>}
PlainHeaders ==
    {<<"x", "-", "a", "p", "i", "-", "k", "e", "y">>,
     <<"S", "e", "t", "-", "C", "o", "o", "k", "i", "e">>}
QueryNames ==
    {<<"q">>,
     <<"p", "a", "g", "e">>}
PathNames ==
    {<<"i", "d">>}

NoneVal == Val("NoneType", "None", 4)
Dicts(keys, values) == UNION {[S -> values] : S \in SUBSET keys}
SmallDicts(keys, values) ==
    UNION {[S -> values] : S \in {T \in SUBSET keys : Cardinality(T) <= 2}}

\* the value a request carries for a header
HeaderValue(h) ==
    IF h \in SensitiveHeaders THEN Val("str", "credential", 10) ELSE Val("str", "tok", 3)

NoRequest == [present |-> FALSE]
Requests ==
    {NoRequest} \cup
    [present : {TRUE}, method : {Val("str", "GET", 3)},
     url : {Val("URL", "http://h/items/7?q=a", 20)},
     route : {Val("str", "/items/{id}", 11)},
     query_params : Dicts(QueryNames, {Val("str", "a", 1)}),
     path_params : Dicts(PathNames, {Val("int", "7", 1)}),
     headers : {[h \in S |-> HeaderValue(h)] :
                    S \in SUBSET (SensitiveHeaders \cup PlainHeaders)}]

\* a response body: its text, its length in bytes and in characters
Body(text, nbytes, nchars) == [type |-> "bytes", text |-> text, len |-> nbytes, chars |-> nchars]
Bodies ==
    {Body("small", 5, 5), Body("full", body_limit, body_limit),
     Body("big", body_limit + 1, body_limit + 1),
     Body("accented", 2 * body_limit, body_limit)}
Responses ==
    [class : {"JSONResponse"}, has_body : {TRUE}, status_code : {Val("int", "200", 3)},
     body : Bodies]
    \cup {[class |-> "StreamingResponse", has_body |-> FALSE,
           status_code |-> Val("int", "200", 3)],
          [class |-> "dict", has_body |-> FALSE]}

ApiInputs ==
    [kind : {"api"}, include_query_params : BOOLEAN, include_path_params : BOOLEAN,
     include_headers : BOOLEAN, include_response_body : BOOLEAN,
     request : Requests, response : Responses]

ArgValues ==
    {Val("Repo", "<Repo object>", 13), Val("Request", "<Request>", 9),
     Val("str", "alice", 5), Val("str", "long", arg_limit + 1)}
KwValues ==
    {Val("str", "hunter2", 7), Val("int", "42", 2), Val("str", "long", arg_limit + 1)}
DbInputs ==
    [kind : {"db"}, operation : {Val("str", "select", 6)},
     table : {NoneVal, Val("str", "users", 5)},
     args : {<<>>} \cup {<<a>> : a \in ArgValues}
                \cup {<<Val("Repo", "<Repo object>", 13), a>> : a \in ArgValues},
     kwargs : SmallDicts(SensitiveKwargs \cup PlainKwargs, KwValues),
     include_parameters : BOOLEAN, qual_class : {"Repo", "load"}]

NoAttrInputs == [kind |-> "none"]

\* ------------------------------------------- core.py: credential resolution
\* a TEMPO_* setting: not set (None), set to the empty string, or set to a value
Settings == {"unset", "empty", "value"}
\* truth value of a setting in `if A and B`
is_set(x) == x = "value"

Configs ==
    [TEMPO_CA_FILE : Settings, TEMPO_CERT_FILE : Settings, TEMPO_KEY_FILE : Settings,
     TEMPO_USERNAME : Settings, TEMPO_PASSWORD : Settings, TEMPO_BEARER_TOKEN : Settings]
NoConfig ==
    [TEMPO_CA_FILE |-> "unset", TEMPO_CERT_FILE |-> "unset", TEMPO_KEY_FILE |-> "unset",
     TEMPO_USERNAME |-> "unset", TEMPO_PASSWORD |-> "unset", TEMPO_BEARER_TOKEN |-> "unset"]

\* grpc.ssl_channel_credentials(...)
ssl_channel_credentials == [kind |-> "ssl"]
\* grpc.access_token_call_credentials(token)
access_token_call_credentials(token) == [kind |-> "call", token |-> token]
\* grpc.composite_channel_credentials(channel, call)
composite_channel_credentials(channel, call) ==
    [kind |-> "composite", channel |-> channel, call |-> call]
\* return None
NoCredentials == [kind |-> "none"]
\* f"{TEMPO_USERNAME}:{TEMPO_PASSWORD}" and TEMPO_BEARER_TOKEN as tokens
UserPassToken == "username:password"
BearerToken == "bearer"

\* mutant of get_tempo_credentials: with TLS the bearer token is looked at first
get_tempo_credentials_bearer_first(c) ==
    IF is_set(c.TEMPO_CA_FILE) /\ is_set(c.TEMPO_CERT_FILE) /\ is_set(c.TEMPO_KEY_FILE)
    THEN IF is_set(c.TEMPO_BEARER_TOKEN)
         THEN composite_channel_credentials(ssl_channel_credentials,
                  access_token_call_credentials(BearerToken))
         ELSE IF is_set(c.TEMPO_USERNAME) /\ is_set(c.TEMPO_PASSWORD)
         THEN composite_channel_credentials(ssl_channel_credentials,
                  access_token_call_credentials(UserPassToken))
         ELSE ssl_channel_credentials
    ELSE IF is_set(c.TEMPO_USERNAME) /\ is_set(c.TEMPO_PASSWORD)
    THEN access_token_call_credentials(UserPassToken)
    ELSE IF is_set(c.TEMPO_BEARER_TOKEN)
    THEN access_token_call_credentials(BearerToken)
    ELSE NoCredentials

\* TempoClient._get_tempo_credentials (core.py 87-133), the credential files
\* being readable
get_tempo_credentials(c) ==
    IF is_set(c.TEMPO_CA_FILE) /\ is_set(c.TEMPO_CERT_FILE) /\ is_set(c.TEMPO_KEY_FILE)
    THEN IF is_set(c.TEMPO_USERNAME) /\ is_set(c.TEMPO_PASSWORD)
         THEN composite_channel_credentials(ssl_channel_credentials,
                  access_token_call_credentials(UserPassToken))
         ELSE IF is_set(c.TEMPO_BEARER_TOKEN)
         THEN composite_channel_credentials(ssl_channel_credentials,
                  access_token_call_credentials(BearerToken))
         ELSE ssl_channel_credentials
    ELSE IF is_set(c.TEMPO_USERNAME) /\ is_set(c.TEMPO_PASSWORD)
    THEN access_token_call_credentials(UserPassToken)
    ELSE IF is_set(c.TEMPO_BEARER_TOKEN)
    THEN access_token_call_credentials(BearerToken)
    ELSE NoCredentials

\* nothing resolved yet
Unresolved == [kind |-> "unresolved"]

AInitVars ==
    /\ apc = "idle"
    /\ ain = NoAttrInputs
    /\ attributes = EmptyDict
    /\ cfg = NoConfig
    /\ credentials = Unresolved
    /\ hook_log = <<>>


\* -------------------------------------------------------------------- Init
\* what a call gives its caller: nothing yet, a value, or a fault
Pending == [kind |-> "none", type |-> "", val |-> ""]
Ret(v) == [kind |-> "ret", type |-> "", val |-> v]
Fault(ty, msg) == [kind |-> "raise", type |-> ty, val |-> msg]

NoInputs ==
    [kind |-> "none", sync |-> FALSE, extract |-> "skip", telemetry |-> FALSE,
     createFault |-> FALSE, perfFault |-> FALSE, recFault |-> FALSE]

NoSpan ==
    [created |-> FALSE, ended |-> FALSE, status |-> "UNSET", exception_event |-> FALSE,
     error_type |-> "", error_message |-> "", duration_ms |-> FALSE]

WInitVars ==
    /\ wpc = "idle"
    /\ win = NoInputs
    /\ calls = <<>>
    /\ observed = Pending
    /\ span = NoSpan
    /\ wfaults = {}

Init ==
    /\ cb = [state |-> "closed", failure_count |-> 0, since_opened |-> 0]
    /\ collectorUp \in BOOLEAN
    /\ tlsFiles \in {"unset", "readable"}
    /\ provider = "unset"
    /\ tempo_client = None
    /\ registry_via = "none"
    /\ th = [t \in Threads |-> IdleThread]
    /\ last = NoCall
    /\ given = {}
    /\ shutdown_calls = 0
    /\ consec = 0
    /\ WInitVars
    /\ AInitVars

\* ----------------------------------------------------------------- actions
\* mutant of init_tempo: the constructor is entered whatever the registry holds
init_tempo_always_constructs(t, svc) ==
    /\ th[t].pc = "idle"
    /\ th' = [th EXCEPT ![t] = [IdleThread EXCEPT !.pc = "ctor", !.op = "init_tempo"]]
    /\ UNCHANGED <<cb, collectorUp, tlsFiles, provider, tempo_client, registry_via,
                   last, given, shutdown_calls, consec>>
    /\ UNCHANGED <<wvars, avars>>

\* init_tempo (core.py 213-220): an existing instance is returned as it is,
\* whatever arguments the call passes, otherwise the constructor is entered
init_tempo(t, svc) ==
    /\ th[t].pc = "idle"
    /\ IF tempo_client # None
       THEN /\ last' = Returned("init_tempo", tempo_client, svc)
            /\ given' = given \cup {tempo_client}
            /\ UNCHANGED th
       ELSE /\ th' = [th EXCEPT ![t] = [IdleThread EXCEPT !.pc = "ctor", !.op = "init_tempo"]]
            /\ UNCHANGED <<last, given>>
    /\ UNCHANGED <<cb, collectorUp, tlsFiles, provider, tempo_client, registry_via,
                   shutdown_calls, consec>>
    /\ UNCHANGED <<wvars, avars>>

\* TempoClient(...) called directly (core.py 35-45)
TempoClient_init(t) ==
    /\ th[t].pc = "idle"
    /\ th' = [th EXCEPT ![t] = [IdleThread EXCEPT !.pc = "ctor", !.op = "TempoClient"]]
    /\ UNCHANGED <<cb, collectorUp, tlsFiles, provider, tempo_client, registry_via,
                   last, given, shutdown_calls, consec>>
    /\ UNCHANGED <<wvars, avars>>

\* the thread after its constructor returned normally: init_tempo still has
\* its assignment to make (line 215) and holds the new instance meanwhile, a
\* direct construction is finished
AfterCtor(r) ==
    IF r.op = "init_tempo"
    THEN [r EXCEPT !.pc = "store", !.self = FreshId]
    ELSE IdleThread

\* the wrapper @circuit puts around _setup_trace_provider (core.py 47-53):
\* while the circuit is open the fallback is called instead of the body, and
\* the constructor returns
circuit_wrapper(t) ==
    /\ th[t].pc = "ctor"
    /\ IF opened(cb)
       THEN /\ th' = [th EXCEPT ![t] = AfterCtor([th[t] EXCEPT !.gate = state(cb)])]
            /\ last' = Finished(th[t].op, state(cb), "fallback", tlsBroken, "returned")
       ELSE /\ th' = [th EXCEPT ![t] = [@ EXCEPT !.pc = "body", !.gate = state(cb)]]
            /\ UNCHANGED last
    /\ UNCHANGED <<cb, collectorUp, tlsFiles, provider, tempo_client, registry_via,
                   given, shutdown_calls, consec>>
    /\ UNCHANGED <<wvars, avars>>

\* the body of _setup_trace_provider (core.py 58-85) and the circuit's
\* bookkeeping as the body is left (CircuitBreaker.__exit__): the outcome is
\* counted, a fault goes on to the caller of the constructor
setup_trace_provider(t) ==
    /\ th[t].pc = "body"
    /\ provider' = provider_after(setup_fault)
    /\ cb' = circuit_on_exit(cb, setup_fault)
    /\ consec' = IF setup_fault = "transport" THEN Min(consec + 1, MaxCount) ELSE 0
    /\ last' = Finished(th[t].op, th[t].gate, "body", tlsBroken,
                        IF setup_fault = "none" THEN "returned" ELSE setup_fault)
    /\ th' = [th EXCEPT ![t] = IF setup_fault = "none" THEN AfterCtor(th[t])
                               ELSE IdleThread]
    /\ UNCHANGED <<collectorUp, tlsFiles, tempo_client, registry_via, given,
                   shutdown_calls>>
    /\ UNCHANGED <<wvars, avars>>

\* init_tempo's assignment and return (core.py 215, 220)
init_tempo_store(t) ==
    /\ th[t].pc = "store"
    /\ tempo_client' = th[t].self
    /\ registry_via' = IF th[t].gate = "open" THEN "fallback" ELSE "setup"
    /\ given' = given \cup {th[t].self}
    /\ shutdown_calls' = 0
    /\ th' = [th EXCEPT ![t] = IdleThread]
    /\ UNCHANGED <<cb, collectorUp, tlsFiles, provider, last, consec>>
    /\ UNCHANGED <<wvars, avars>>

\* mutant of get_tempo: an unset registry is returned as it is
get_tempo_no_raise(t) ==
    /\ th[t].pc = "idle"
    /\ last' = Returned("get_tempo", tempo_client, "")
    /\ UNCHANGED <<cb, collectorUp, tlsFiles, provider, tempo_client, registry_via,
                   th, given, shutdown_calls, consec>>
    /\ UNCHANGED <<wvars, avars>>

\* get_tempo (core.py 233-235), as the decorators call it for every traced call
get_tempo(t) ==
    /\ th[t].pc = "idle"
    /\ last' = IF tempo_client = None
               THEN Finished("get_tempo", "none", "none", FALSE, "RuntimeError")
               ELSE Returned("get_tempo", tempo_client, "")
    /\ UNCHANGED <<cb, collectorUp, tlsFiles, provider, tempo_client, registry_via,
                   th, given, shutdown_calls, consec>>
    /\ UNCHANGED <<wvars, avars>>

\* TempoClient.shutdown (core.py 186-192) called on the registered instance:
\* the global provider's shutdown is called, with no record on the instance
\* of an earlier call
TempoClient_shutdown(t) ==
    /\ th[t].pc = "idle"
    /\ tempo_client # None
    /\ shutdown_calls < MaxShutdowns
    /\ provider' = "shutdown"
    /\ shutdown_calls' = shutdown_calls + 1
    /\ last' = Finished("TempoClient.shutdown", "none", "none", FALSE, "returned")
    /\ UNCHANGED <<cb, collectorUp, tlsFiles, tempo_client, registry_via, th, given,
                   consec>>
    /\ UNCHANGED <<wvars, avars>>

\* the shutdown hook integrate_tempo_with_telemetry registers
\* (integration.py 53-67), first half: telemetry_client.shutdown() if there
\* is a telemetry client, a fault of it logged. telemetry is "none" (no
\* telemetry client), "ok" or "raise".
TelemetryOutcomes == {"none", "ok", "raise"}

\* mutant of shutdown_tracing_telemetry: a fault of the telemetry shutdown
\* leaves the hook
shutdown_tracing_telemetry_unguarded(t, telemetry) ==
    /\ th[t].pc = "idle"
    /\ tempo_client # None
    /\ hook_log' = IF telemetry = "none" THEN <<>>
                   ELSE <<[who |-> "telemetry", res |-> telemetry]>>
    /\ IF telemetry = "raise"
       THEN /\ last' = Finished("shutdown_tracing", "none", "none", FALSE, "raise")
            /\ UNCHANGED th
       ELSE /\ th' = [th EXCEPT ![t] = [IdleThread EXCEPT !.pc = "hook",
                                                         !.op = "shutdown_tracing"]]
            /\ UNCHANGED last
    /\ UNCHANGED <<cb, collectorUp, tlsFiles, provider, tempo_client, registry_via,
                   given, shutdown_calls, consec>>
    /\ UNCHANGED <<wvars, apc, ain, attributes, cfg, credentials>>

shutdown_tracing_telemetry(t, telemetry) ==
    /\ th[t].pc = "idle"
    /\ tempo_client # None
    /\ hook_log' = IF telemetry = "none" THEN <<>>
                   ELSE <<[who |-> "telemetry", res |-> telemetry]>>
    /\ th' = [th EXCEPT ![t] = [IdleThread EXCEPT !.pc = "hook",
                                                  !.op = "shutdown_tracing"]]
    /\ UNCHANGED <<cb, collectorUp, tlsFiles, provider, tempo_client, registry_via,
                   last, given, shutdown_calls, consec>>
    /\ UNCHANGED <<wvars, apc, ain, attributes, cfg, credentials>>

\* the hook, second half (integration.py 64-67): tempo_client.shutdown() on
\* the instance integrate_tempo_with_telemetry was given, a fault of it
\* logged; the hook returns. The registry is not touched.
shutdown_tracing_tempo(t, fault) ==
    /\ th[t].pc = "hook"
    /\ provider' = IF fault THEN provider ELSE "shutdown"
    /\ shutdown_calls' = Min(shutdown_calls + 1, MaxShutdowns)
    /\ hook_log' = Append(hook_log, [who |-> "tempo",
                                     res |-> IF fault THEN "raise" ELSE "ok"])
    /\ last' = Finished("shutdown_tracing", "none", "none", FALSE, "returned")
    /\ th' = [th EXCEPT ![t] = IdleThread]
    /\ UNCHANGED <<cb, collectorUp, tlsFiles, tempo_client, registry_via, given, consec>>
    /\ UNCHANGED <<wvars, apc, ain, attributes, cfg, credentials>>

\* shutdown_tempo (core.py 240-243) with TempoClient.shutdown (line 191); on
\* an unset registry it does nothing
shutdown_tempo(t) ==
    /\ th[t].pc = "idle"
    /\ tempo_client # None
    /\ provider' = "shutdown"
    /\ shutdown_calls' = Min(shutdown_calls + 1, MaxShutdowns)
    /\ tempo_client' = None
    /\ registry_via' = "none"
    /\ given' = {}
    /\ last' = Finished("shutdown_tempo", "none", "none", FALSE, "returned")
    /\ UNCHANGED <<cb, collectorUp, tlsFiles, th, consec>>
    /\ UNCHANGED <<wvars, avars>>

\* time passes: only the age of an open circuit is ever read
Tick ==
    /\ cb.state = "open"
    /\ cb.since_opened < recovery_timeout
    /\ cb' = [cb EXCEPT !.since_opened = Min(@ + TickStep, recovery_timeout)]
    /\ UNCHANGED <<collectorUp, tlsFiles, provider, tempo_client, registry_via, th,
                   last, given, shutdown_calls, consec>>
    /\ UNCHANGED <<wvars, avars>>

\* the collector goes away or comes back
CollectorChanges ==
    /\ collectorUp' = ~collectorUp
    /\ UNCHANGED <<cb, tlsFiles, provider, tempo_client, registry_via, th, last,
                   given, shutdown_calls, consec>>
    /\ UNCHANGED <<wvars, avars>>

\* a configured credential file becomes unreadable, or readable again
FilesChange ==
    /\ tlsFiles # "unset"
    /\ tlsFiles' = IF tlsFiles = "readable" THEN "unreadable" ELSE "readable"
    /\ UNCHANGED <<cb, collectorUp, provider, tempo_client, registry_via, th, last,
                   given, shutdown_calls, consec>>
    /\ UNCHANGED <<wvars, avars>>

Next ==
    \/ \E t \in Threads, svc \in ServiceNames : init_tempo(t, svc)
    \/ \E t \in Threads : TempoClient_init(t)
    \/ \E t \in Threads : circuit_wrapper(t)
    \/ \E t \in Threads : setup_trace_provider(t)
    \/ \E t \in Threads : init_tempo_store(t)
    \/ \E t \in Threads : get_tempo(t)
    \/ \E t \in Threads : shutdown_tempo(t)
    \/ Tick
    \/ CollectorChanges
    \/ FilesChange

Spec == Init /\ [][Next]_vars

\* one caller: the registry used from a single thread, call after call, and
\* the instance it was given shut down directly as well as through
\* shutdown_tempo
SeqNext ==
    \/ \E svc \in ServiceNames : init_tempo("t1", svc)
    \/ TempoClient_init("t1")
    \/ circuit_wrapper("t1")
    \/ setup_trace_provider("t1")
    \/ init_tempo_store("t1")
    \/ get_tempo("t1")
    \/ TempoClient_shutdown("t1")
    \/ \E telemetry \in TelemetryOutcomes : shutdown_tracing_telemetry("t1", telemetry)
    \/ \E fault \in BOOLEAN : shutdown_tracing_tempo("t1", fault)
    \/ shutdown_tempo("t1")
    \/ Tick
    \/ CollectorChanges
    \/ FilesChange

SeqSpec == Init /\ [][SeqNext]_vars

\* ------------------------------------------------- api_tracing.py wrappers
cvars == <<cb, collectorUp, tlsFiles, provider, tempo_client, registry_via, th, last,
           given, shutdown_calls, consec>>

\* what one invocation of the wrapped function can do
\* asyncio.CancelledError thrown into the awaiting wrapper when the host
\* cancels the call: a BaseException, not an Exception
Cancelled == [kind |-> "cancel", type |-> "CancelledError", val |-> ""]

FuncOutcomes ==
    {Ret(v) : v \in {"r1", "r2"}} \cup
    {Fault(ty, "bad input") : ty \in {"ValueError", "RuntimeError"}} \cup
    {Cancelled}

\* mutant of is_Exception: the handlers catch everything
is_Exception_any(e) == e.kind \in {"raise", "cancel"}

\* what `except Exception` catches (api 163, 175; db 286, 298)
is_Exception(e) == e.kind = "raise"

\* the inputs of one decorated call
\*   kind         which decorator wraps the function
\*   sync         the wrapped function is a plain function, not a coroutine
\*                function (the decorator then returns sync_wrapper)
\*   extract      attribute extraction: "skip" (no request object /
\*                include_parameters off), "ok", or "fault" (a request field
\*                or str(arg) raises)
\*   telemetry    get_telemetry() returns a client
\*   createFault  client.create_span raises (core.py 153-155: str(value) or
\*                span.set_attribute raises, and nothing there catches it)
\*   perfFault    span.set_attribute("duration_ms", ...) raises
\*   recFault     span.record_exception raises
WrapInputs ==
    [kind : {"api", "db"}, sync : BOOLEAN, extract : {"skip", "ok", "fault"},
     telemetry : BOOLEAN, createFault : BOOLEAN, perfFault : BOOLEAN,
     recFault : BOOLEAN]

\* the fault of an attribute extraction step
ExtractionFault == Fault("AttributeError", "extract")

\* what `await func(*args, **kwargs)` gives where the wrapper calls the
\* function (api 131, 136, 179; db 232, 274, 301). sync_wrapper runs the same
\* coroutine under asyncio.run (api 188, db 307), so a plain function is
\* called, runs to its end, and the value it returns is then awaited: a value
\* that is no awaitable makes the await raise TypeError.
Awaited(o) ==
    IF win.sync /\ o.kind = "ret" THEN Fault("TypeError", "await") ELSE o

\* client = tempo_client or telemetry_client (api 128, db 264)
HasClient == tempo_client # None \/ win.telemetry

\* the wrapper is entered (api 52, db 217)
wrapper(inp) ==
    /\ wpc = "idle"
    /\ win' = inp
    /\ wpc' = IF inp.kind = "api" THEN "extract" ELSE "clients"
    /\ UNCHANGED <<calls, observed, span, wfaults>>
    /\ UNCHANGED <<cvars, avars>>

\* attribute extraction, outside every try block (api 53-107, db 243-261):
\* a fault here leaves the wrapper at once
extract_attributes ==
    /\ wpc = "extract"
    /\ IF win.extract = "fault"
       THEN /\ wpc' = "done"
            /\ observed' = ExtractionFault
            /\ wfaults' = wfaults \cup {"extract"}
       ELSE /\ wpc' = IF win.kind = "api" THEN "clients" ELSE "span"
            /\ UNCHANGED <<observed, wfaults>>
    /\ UNCHANGED <<win, calls, span>>
    /\ UNCHANGED <<cvars, avars>>

\* get_telemetry / get_tempo, RuntimeError caught (api 110-119, db 219-228);
\* trace_db_operation leaves for the bare call when it has no client (231)
get_clients ==
    /\ wpc = "clients"
    /\ wpc' = IF win.kind = "api" THEN "span"
              ELSE IF HasClient THEN "extract" ELSE "direct"
    /\ UNCHANGED <<win, calls, observed, span, wfaults>>
    /\ UNCHANGED <<cvars, avars>>

\* client.create_span inside the outer try (api 126-133, db 266-268);
\* trace_api_route takes its bare call from inside that try (129-131)
create_span ==
    /\ wpc = "span"
    /\ IF ~HasClient
       THEN /\ wpc' = "direct"
            /\ UNCHANGED <<span, wfaults>>
       ELSE IF win.createFault
       THEN /\ wpc' = "fallback"
            /\ wfaults' = wfaults \cup {"create_span"}
            /\ UNCHANGED span
       ELSE /\ wpc' = "call"
            /\ span' = [NoSpan EXCEPT !.created = TRUE]
            /\ UNCHANGED wfaults
    /\ UNCHANGED <<win, calls, observed>>
    /\ UNCHANGED <<cvars, avars>>

\* the bare call when there is no client: trace_db_operation makes it outside
\* its try (232), trace_api_route inside (131), where the outer handler
\* catches what the function raises
call_without_client(o) ==
    /\ wpc = "direct"
    /\ calls' = Append(calls, o)
    /\ IF win.kind = "api" /\ is_Exception(Awaited(o))
       THEN /\ wpc' = "fallback"
            /\ UNCHANGED observed
       ELSE /\ wpc' = "done"
            /\ observed' = Awaited(o)
    /\ UNCHANGED <<win, span, wfaults>>
    /\ UNCHANGED <<cvars, avars>>

\* mutant of EndSpan: the span is left open
EndSpan_not_ended(sp) == sp

\* leaving the with block (api 133, db 268): the span is ended
EndSpan(sp) == [sp EXCEPT !.ended = TRUE]

\* the wrapped function is called inside the span (api 136, db 274); what no
\* handler catches leaves through the with block, which ends the span
call_in_span(o) ==
    /\ wpc = "call"
    /\ calls' = Append(calls, o)
    /\ IF is_Exception(Awaited(o))
       THEN /\ wpc' = "handler"
            /\ UNCHANGED <<observed, span>>
       ELSE IF Awaited(o).kind = "ret"
       THEN /\ wpc' = "post"
            /\ UNCHANGED <<observed, span>>
       ELSE /\ wpc' = "done"
            /\ span' = EndSpan(span)
            /\ observed' = Awaited(o)
    /\ UNCHANGED <<win, wfaults>>
    /\ UNCHANGED <<cvars, avars>>

\* span.set_attribute("duration_ms", ...); span.set_status(OK) (api 157-158,
\* db 278-281)
RecordSuccess(sp) == [sp EXCEPT !.duration_ms = TRUE, !.status = "OK"]

\* mutant of RecordError: message and type the wrong way round
RecordError_swapped(sp, e) ==
    [sp EXCEPT !.exception_event = TRUE, !.status = "ERROR",
               !.error_message = e.type, !.error_type = e.val]

\* span.record_exception(e); set_status(ERROR); error.message = str(e);
\* error.type = e.__class__.__name__ (api 166-169, db 289-292)
RecordError(sp, e) ==
    [sp EXCEPT !.exception_event = TRUE, !.status = "ERROR",
               !.error_message = e.val, !.error_type = e.type]

\* after a normal return (api 138-162, db 276-285): duration_ms, then status
\* OK, in one try; the value is returned and the with block ends the span
after_return ==
    /\ wpc = "post"
    /\ span' = EndSpan(IF win.perfFault THEN span ELSE RecordSuccess(span))
    /\ wfaults' = IF win.perfFault THEN wfaults \cup {"duration_ms"} ELSE wfaults
    /\ observed' = calls[Len(calls)]
    /\ wpc' = "done"
    /\ UNCHANGED <<win, calls>>
    /\ UNCHANGED <<cvars, avars>>

\* the inner handler (api 163-174, db 286-297): the fault is recorded on the
\* span and raised again; the with block ends the span, and the raised fault
\* arrives in the outer handler (api 175, db 298)
inner_except ==
    /\ wpc = "handler"
    /\ span' = EndSpan(IF win.recFault THEN span
                       ELSE RecordError(span, Awaited(calls[Len(calls)])))
    /\ wfaults' = IF win.recFault THEN wfaults \cup {"record_exception"} ELSE wfaults
    /\ wpc' = "fallback"
    /\ UNCHANGED <<win, calls, observed>>
    /\ UNCHANGED <<cvars, avars>>

\* mutant of outer_except: the function is called but its result not returned
outer_except_no_return(o) ==
    /\ wpc = "fallback"
    /\ calls' = Append(calls, o)
    /\ observed' = IF Awaited(o).kind = "ret" THEN Ret("None") ELSE Awaited(o)
    /\ wpc' = "done"
    /\ UNCHANGED <<win, span, wfaults>>
    /\ UNCHANGED <<cvars, avars>>

\* the outer handler (api 175-179, db 298-301): the error is logged and the
\* wrapped function is called; what that call gives is what the caller gets
outer_except(o) ==
    /\ wpc = "fallback"
    /\ calls' = Append(calls, o)
    /\ observed' = Awaited(o)
    /\ wpc' = "done"
    /\ UNCHANGED <<win, span, wfaults>>
    /\ UNCHANGED <<cvars, avars>>

WrapNext ==
    \/ \E inp \in WrapInputs : wrapper(inp)
    \/ extract_attributes
    \/ get_clients
    \/ create_span
    \/ \E o \in FuncOutcomes : call_without_client(o)
    \/ \E o \in FuncOutcomes : call_in_span(o)
    \/ after_return
    \/ inner_except
    \/ \E o \in FuncOutcomes : outer_except(o)

\* a decorated call starts with the registry unset, or set by a finished init_tempo
WrapInit ==
    /\ cb = [state |-> "closed", failure_count |-> 0, since_opened |-> 0]
    /\ collectorUp = TRUE
    /\ tlsFiles = "unset"
    /\ \/ tempo_client = None /\ registry_via = "none" /\ provider = "unset"
       \/ tempo_client = 1 /\ registry_via = "setup" /\ provider = "exporting"
    /\ th = [t \in Threads |-> IdleThread]
    /\ last = NoCall
    /\ given = IF tempo_client = None THEN {} ELSE {tempo_client}
    /\ shutdown_calls = 0
    /\ consec = 0
    /\ WInitVars
    /\ AInitVars

WrapSpec == WrapInit /\ [][WrapNext]_vars

\* ---- the attribute code as steps of one decorated call
\* trace_api_route: the request attributes, handed to create_span
api_request_attributes(inp) ==
    /\ apc = "idle"
    /\ ain' = inp
    /\ attributes' = SpanAttributes(RequestAttributes(inp.request,
                         inp.include_query_params, inp.include_path_params,
                         inp.include_headers))
    /\ apc' = "returned"
    /\ UNCHANGED <<cvars, wvars, kvars>>

\* trace_api_route: the function returned, the response attributes are set
api_response_attributes ==
    /\ apc = "returned"
    /\ attributes' = ResponseAttributes(attributes, ain.response,
                                        ain.include_response_body)
    /\ apc' = "done"
    /\ UNCHANGED ain
    /\ UNCHANGED <<cvars, wvars, kvars>>

\* trace_db_operation: the attributes, handed to create_span
db_attributes(inp) ==
    /\ apc = "idle"
    /\ ain' = inp
    /\ attributes' = SpanAttributes(DbAttributes(inp.operation, inp.table, inp.args,
                         inp.kwargs, inp.include_parameters, inp.qual_class))
    /\ apc' = "done"
    /\ UNCHANGED <<cvars, wvars, kvars>>

AttrNext ==
    \/ apc = "idle" /\ \E inp \in ApiInputs : api_request_attributes(inp)
    \/ api_response_attributes
    \/ apc = "idle" /\ \E inp \in DbInputs : db_attributes(inp)

\* ---- credential resolution as a step: the process is started with some
\* configuration and the constructor resolves the credentials
resolve_credentials(c) ==
    /\ credentials = Unresolved
    /\ cfg' = c
    /\ credentials' = get_tempo_credentials(c)
    /\ UNCHANGED <<cvars, wvars, apc, ain, attributes, hook_log>>

CredNext == \E c \in Configs : resolve_credentials(c)

\* the attribute code does not read the registry: it starts unset
AttrInit == WrapInit /\ tempo_client = None

AttrSpec == AttrInit /\ [][AttrNext]_vars

CredSpec == AttrInit /\ [][CredNext]_vars

\* an application that keeps calling: every thread goes on with the call it
\* is in, init_tempo and traced calls (get_tempo) keep being made, and time
\* passes. Nothing is assumed of the collector, the files or shutdown_tempo.
Fairness ==
    /\ \A t \in Threads : WF_vars(circuit_wrapper(t))
    /\ \A t \in Threads : WF_vars(setup_trace_provider(t))
    /\ \A t \in Threads : WF_vars(init_tempo_store(t))
    /\ \A t \in Threads : SF_vars(\E svc \in ServiceNames : init_tempo(t, svc))
    /\ \A t \in Threads : SF_vars(get_tempo(t))
    /\ WF_vars(Tick)

FairSpec == Init /\ [][Next]_vars /\ Fairness

\* ------------------------------------------------------------------ claims
CtorOps == {"TempoClient", "init_tempo"}

\* C3: a setup attempt that fails with a transport fault never raises to the
\* caller of the constructor or of init_tempo.
C3_TransportFaultContained ==
    ~(last.op \in CtorOps /\ last.res = "transport")

\* C4: the circuit is stored as open exactly when the setup attempts that
\* finished last are 3 or more transport failures in a row; with fewer, or
\* after an attempt that did not fail that way, it is closed.
C4_OpensAtThreeConsecutive ==
    (cb.state = "open") <=> (consec >= failure_threshold)

\* C4 witness: the third transport failure in a row has just opened the circuit
C4_Witness ==
    /\ cb.state = "open"
    /\ consec = failure_threshold
    /\ last.res = "transport"
    /\ last.gate = "closed"

\* C5: a constructor that reaches the circuit while it is open and fewer than
\* 30 seconds have passed since it opened leaves the circuit and the provider
\* untouched (the body does not run), calls the fallback and returns normally.
C5_OpenShortCircuits ==
    [][\A t \in Threads :
          (/\ th[t].pc = "ctor"
           /\ th'[t] # th[t]
           /\ cb.state = "open"
           /\ cb.since_opened < recovery_timeout)
          => (/\ th'[t].pc \in {"idle", "store"}
              /\ last' = Finished(th[t].op, "open", "fallback", tlsBroken, "returned")
              /\ provider' = provider
              /\ cb' = cb
              /\ consec' = consec)]_vars

\* C5 witness: a constructor has returned through the fallback, 15 seconds
\* after the circuit opened
C5_Witness ==
    /\ last.path = "fallback"
    /\ last.res = "returned"
    /\ cb.state = "open"
    /\ cb.since_opened = TickStep

\* C6: at most one attempt let through while the circuit was half-open is
\* inside the setup body at any time.
C6_SingleProbe ==
    Cardinality({t \in Threads : th[t].pc = "body" /\ th[t].gate = "half_open"}) <= 1

C8_EventuallyExporting ==
    (<>[](collectorUp /\ ~tlsBroken)) => <>(provider = "exporting")

\* C9: a constructor that finishes while a configured credential file is
\* unreadable ends with that fault raised to its caller.
C9_BrokenTlsIsFatal ==
    (last.op \in CtorOps /\ last.tlsBroken) => last.res = "config"

\* C1: when the wrapped function raises, the caller of the wrapper observes
\* that fault (same type, same message).
C1_FaultReraisedVerbatim ==
    (wpc = "done" /\ Len(calls) >= 1 /\ calls[1].kind = "raise")
        => observed = calls[1]

\* C2: the wrapped function is invoked at most once per call of the wrapper.
C2_InvokedAtMostOnce == Len(calls) <= 1

\* C10: a fault of attribute extraction is swallowed: the wrapped function
\* is still invoked and the caller gets what it gave.
C10_ExtractionFaultSwallowed ==
    (wpc = "done" /\ "extract" \in wfaults)
        => (Len(calls) >= 1 /\ observed = calls[Len(calls)])

\* the wrapper got as far as asking for a span and could not have one
NoSpanObtained ==
    /\ wpc = "done"
    /\ "extract" \notin wfaults
    /\ (~HasClient \/ "create_span" \in wfaults)

C12_SyncReturnsOwnValue ==
    (wpc = "done" /\ win.sync /\ "extract" \notin wfaults /\ Len(calls) >= 1
        /\ calls[1].kind = "ret")
        => observed = calls[1]

C14_OkSpan ==
    (span.ended /\ ~win.sync /\ Len(calls) >= 1 /\ calls[1].kind = "ret")
        => span.status = "OK"

C16_GetTempo ==
    [][\A t \in Threads :
        /\ get_tempo(t) =>
            /\ (last'.res = "RuntimeError") <=> (given = {})
            /\ given # {} => (last'.res = "returned" /\ given = {last'.val})
        /\ (setup_trace_provider(t) /\ th[t].op = "init_tempo" /\ setup_fault # "none")
            => (tempo_client' = None /\ given' = {})]_vars

\* C16 witness: after a shutdown_tempo and a new init_tempo, get_tempo
\* returned the new instance
C16_Witness ==
    /\ last.op = "get_tempo"
    /\ last.res = "returned"
    /\ last.val = tempo_client
    /\ tempo_client # None
    /\ provider = "shutdown"
    /\ shutdown_calls = 0

\* C17: the provider's shutdown runs at most once for a client, however
\* often TempoClient.shutdown or shutdown_tempo is called.
C17_ShutdownOnce == shutdown_calls <= 1

\* C18: in trace_db_operation a keyword argument whose name contains
\* "password" or "secret" in any letter case is in no span attribute: no
\* attribute key holds its name, and its value is in the attributes only as
\* the value of another argument.
C18_KwargsRedacted ==
    (apc = "done" /\ ain.kind = "db") =>
        \A name \in DOMAIN ain.kwargs \cap SensitiveKwargs :
            \A k \in DOMAIN attributes :
                /\ ~contains(k, name)
                /\ attributes[k] = str(ain.kwargs[name]) =>
                    \/ startswith(k, p_db_arg)
                    \/ \E other \in DOMAIN ain.kwargs \cap PlainKwargs :
                          /\ k = p_db_kwarg \o other
                          /\ str(ain.kwargs[other]) = attributes[k]

\* C18 witness: DB_PASSWORD and name were both passed, and name was recorded
C18_Witness ==
    /\ apc = "done"
    /\ ain.kind = "db"
    /\ ain.include_parameters
    /\ DOMAIN ain.kwargs = {<<"D", "B", "_", "P", "A", "S", "S", "W", "O", "R", "D">>, <<"n", "a", "m", "e">>}
    /\ (p_db_kwarg \o <<"n", "a", "m", "e">>) \in DOMAIN attributes

\* C19: in trace_api_route with include_headers, a header named
\* authorization or cookie in any letter case is in no span attribute, and
\* every other header is recorded under http.header.<name> with its value.
C19_HeadersRedacted ==
    (apc \in {"returned", "done"} /\ ain.kind = "api" /\ ain.request.present) =>
        \A h \in DOMAIN ain.request.headers :
            /\ h \in SensitiveHeaders =>
                \A k \in DOMAIN attributes :
                    ~contains(k, h) /\ attributes[k] # HeaderValue(h)
            /\ (h \in PlainHeaders /\ ain.include_headers) =>
                /\ (p_http_header \o h) \in DOMAIN attributes
                /\ attributes[p_http_header \o h] = ain.request.headers[h]

\* C19 witness: Authorization and x-api-key were both sent with
\* include_headers on, and x-api-key was recorded
C19_Witness ==
    /\ apc = "done"
    /\ ain.kind = "api"
    /\ ain.request.present
    /\ ain.include_headers
    /\ DOMAIN ain.request.headers = {<<"A", "u", "t", "h", "o", "r", "i", "z", "a", "t", "i", "o", "n">>, <<"x", "-", "a", "p", "i", "-", "k", "e", "y">>}
    /\ (p_http_header \o <<"x", "-", "a", "p", "i", "-", "k", "e", "y">>) \in DOMAIN attributes

\* C20: in trace_api_route an attribute group is on the span only when its
\* toggle is enabled: no http.response.body without include_response_body,
\* no http.query.*, http.path.*, http.header.* without include_query_params,
\* include_path_params, include_headers.
C20_TogglesRespected ==
    (apc = "done" /\ ain.kind = "api") =>
        /\ ~ain.include_response_body => k_http_response_body \notin DOMAIN attributes
        /\ \A k \in DOMAIN attributes :
            /\ ~ain.include_query_params => ~startswith(k, p_http_query)
            /\ ~ain.include_path_params => ~startswith(k, p_http_path)
            /\ ~ain.include_headers => ~startswith(k, p_http_header)

\* C20 witness: a response with a body went by with include_response_body
\* off and a request with query parameters with include_query_params off;
\* the status code and the path parameter were recorded
C20_Witness ==
    /\ apc = "done"
    /\ ain.kind = "api"
    /\ ~ain.include_response_body
    /\ ain.response.class = "JSONResponse"
    /\ ain.request.present
    /\ ~ain.include_query_params
    /\ DOMAIN ain.request.query_params # {}
    /\ k_http_status_code \in DOMAIN attributes
    /\ \E k \in DOMAIN attributes : startswith(k, p_http_path)

\* the positional arguments trace_db_operation looks at: all but a leading
\* self or cls
DbPositional ==
    IF Len(ain.args) > 0 /\ ain.args[1].type = ain.qual_class
    THEN Tail(ain.args) ELSE ain.args

\* C21: in trace_db_operation with include_parameters every non-redacted
\* positional and keyword argument is recorded, its value being its string
\* form cut to at most 256 characters.
C21_ArgsTruncated ==
    (apc = "done" /\ ain.kind = "db" /\ ain.include_parameters) =>
        /\ \A name \in DOMAIN ain.kwargs \cap PlainKwargs :
            /\ (p_db_kwarg \o name) \in DOMAIN attributes
            /\ attributes[p_db_kwarg \o name].len = Min(str(ain.kwargs[name]).len, arg_limit)
        /\ \A i \in 1..Len(DbPositional) :
            DbPositional[i].type # "Request" =>
                /\ (p_db_arg \o index_str(i - 1)) \in DOMAIN attributes
                /\ attributes[p_db_arg \o index_str(i - 1)].len
                       = Min(str(DbPositional[i]).len, arg_limit)

\* C22: with include_response_body the recorded http.response.body is never
\* more than 4096 bytes of the body, and a body of at most 4096 bytes is
\* recorded in full.
C22_BodyCapped ==
    (apc = "done" /\ ain.kind = "api" /\ ain.include_response_body
        /\ ain.response.class = "JSONResponse") =>
        /\ k_http_response_body \in DOMAIN attributes
            => ain.response.body.len <= body_limit
        /\ ain.response.body.len <= body_limit
            => /\ k_http_response_body \in DOMAIN attributes
               /\ attributes[k_http_response_body] = decode(ain.response.body)

\* the settings of cfg, by name
HasTls == is_set(cfg.TEMPO_CA_FILE) /\ is_set(cfg.TEMPO_CERT_FILE) /\ is_set(cfg.TEMPO_KEY_FILE)
HasUserPass == is_set(cfg.TEMPO_USERNAME) /\ is_set(cfg.TEMPO_PASSWORD)
HasBearer == is_set(cfg.TEMPO_BEARER_TOKEN)

\* C23: _get_tempo_credentials gives TLS alone for CA+cert+key only, TLS
\* composed with username:password when those are set too, a call credential
\* alone without TLS, nothing when nothing is configured, and with both
\* username/password and a bearer token only the username/password layer.
C23_CredentialTable ==
    credentials # Unresolved =>
        /\ (HasTls /\ ~HasUserPass /\ ~HasBearer) => credentials = [kind |-> "ssl"]
        /\ (HasTls /\ HasUserPass) =>
              credentials = [kind |-> "composite", channel |-> [kind |-> "ssl"],
                             call |-> [kind |-> "call", token |-> "username:password"]]
        /\ (~HasTls /\ HasUserPass) =>
              credentials = [kind |-> "call", token |-> "username:password"]
        /\ (~HasTls /\ ~HasUserPass /\ HasBearer) =>
              credentials = [kind |-> "call", token |-> "bearer"]
        /\ (~HasTls /\ ~HasUserPass /\ ~HasBearer) => credentials = [kind |-> "none"]

\* C23 witness: TLS files, username, password and a bearer token all set,
\* and the credentials carry the username/password layer
C23_Witness ==
    /\ HasTls /\ HasUserPass /\ HasBearer
    /\ credentials.kind = "composite"
    /\ credentials.call.token = "username:password"

\* C24: TempoClient.create_span never raises to its caller: also when an
\* attribute cannot be stringified or set, the caller gets a started span.
C24_CreateSpanNeverRaises ==
    (tempo_client # None /\ win.createFault
        /\ wpc \in {"call", "post", "handler", "fallback", "done"})
        => span.created

\* C25: when the host cancels a wrapped asynchronous call, the wrapper's
\* span is ended by the time the cancellation reaches the caller, the caller
\* gets the cancellation itself, and the function is not run again.
C25_CancellationPropagates ==
    (wpc = "done" /\ ~win.sync) =>
        \A i \in 1..Len(calls) :
            calls[i].kind = "cancel" =>
                /\ i = Len(calls)
                /\ observed = Cancelled
                /\ span.created => span.ended

\* C25 witness: a call inside a span was cancelled at its first invocation
C25_Witness ==
    /\ wpc = "done"
    /\ ~win.sync
    /\ calls = <<Cancelled>>
    /\ span.created
    /\ span.ended
    /\ observed = Cancelled

C26_ConfigFaultNotCounted ==
    [][\A t \in Threads :
          (th[t].pc = "body" /\ th'[t] # th[t] /\ setup_fault = "config")
              => cb' = cb]_vars

\* C27: once the shutdown hook has run the registry is cleared, so that
\* get_tempo raises and the wrappers find no client.
C27_HookClearsRegistry ==
    last.op = "shutdown_tracing" => tempo_client = None

\* C29: two init_tempo calls running concurrently on an unset registry
\* construct one client between them and both give that instance.
C29_ConcurrentInitOnce ==
    /\ Cardinality(given) <= 1
    /\ \A t \in Threads : th[t].pc = "store" => tempo_client = None

\* C30: the shutdown hook calls the telemetry shutdown first, calls
\* TempoClient.shutdown whatever the telemetry shutdown did, and returns
\* without raising whatever either of them did.
C30_HookShutsDownBoth ==
    /\ (last.op = "shutdown_tracing" /\ \A t \in Threads : th[t].pc # "hook") =>
        /\ last.res = "returned"
        /\ Len(hook_log) \in {1, 2}
        /\ hook_log[Len(hook_log)].who = "tempo"
        /\ Len(hook_log) = 2 => hook_log[1].who = "telemetry"
    /\ \A t \in Threads : th[t].pc = "hook" =>
        \A i \in 1..Len(hook_log) : hook_log[i].who = "telemetry"

\* C30 witness: the telemetry shutdown raised, TempoClient.shutdown was
\* called after it, and the hook returned
C30_Witness ==
    /\ last.op = "shutdown_tracing"
    /\ last.res = "returned"
    /\ hook_log = <<[who |-> "telemetry", res |-> "raise"], [who |-> "tempo", res |-> "ok"]>>
    /\ provider = "shutdown"

====
